---- MODULE Spec2Model ----
(***************************************************************************)
(* EndoPredict backend (src/app.py): the in-memory OTP store, user         *)
(* directory and history ledger, and the HTTP handlers that act on them.   *)
(* Python dicts are functions whose DOMAIN is the set of keys present.     *)
(* Each handler is one action: the whole body of the handler, from the     *)
(* request to the response (or the HTTPException) it ends with.            *)
(***************************************************************************)
EXTENDS Integers, Sequences, FiniteSets, TLC

(* ------------------------------ bounds -------------------------------- *)

\* How many times the clock may advance in a behaviour.
MaxTicks == 1

\* How many OTPs may be issued in a behaviour.
MaxSends == 2

\* How many records the ledger may hold in total.
MaxHistory == 4

\* How many save_history requests are handled in parallel.
MaxThreads == 2

(* ------------------------- program constants -------------------------- *)

OTP_EXPIRY_SECONDS == 300

\* random.randint(100000, 999999): the two ends of the range are drawn.
OTP_MIN == 100000
OTP_MAX == 999999

(* --------------------------- input domains ---------------------------- *)

Emails == {"ann@x.com", "bob@x.com"}
Names == {"Ann", "Bob"}
Passwords == {"pw1", "pw2"}
Tokens == {"g-token"}

\* The integers the generator draws, and str() of them.
OtpDraws == {OTP_MIN, OTP_MAX}
str(n) == ToString(n)

\* What a caller may submit as req.otp: every code that can be issued, and
\* a string that is never issued.
SubmittedOtps == {str(n) : n \in OtpDraws} \cup {"000000"}

\* HistoryItemRequest payloads: {risk_percentage, date}.
HistoryItems == {[risk_percentage |-> 12, date |-> "2026-01-01"],
                 [risk_percentage |-> 80, date |-> "2026-01-02"]}

\* The payload appended while the authentication handlers are explored, and
\* the email it is appended for.
SomeItems == {[risk_percentage |-> 12, date |-> "2026-01-01"]}
SomeEmails == {"ann@x.com"}

\* The sign-up explored while the ledger and the read-only handlers are:
\* one name, one code, one password, a right and a wrong submission.
SomeNames == {"Ann"}
SomeDraws == {OTP_MIN}
SomeOtps == {str(n) : n \in SomeDraws} \cup {"000000"}
SomePasswords == {"pw1"}

\* How far the clock moves between two requests: exactly the lifetime of an
\* OTP, or one second more.
TickSteps == {OTP_EXPIRY_SECONDS, OTP_EXPIRY_SECONDS + 1}

\* Outcome of the delivery branch of send_otp: SMTP credentials absent
\* (mock print), message sent, or any exception raised inside the try.
Deliveries == {"mock", "sent", "failed"}

(* ------------------------------- state -------------------------------- *)

VARIABLES
    otp_store,   \* email -> [otp, expires_at, name]
    users_db,    \* email -> [name, email, password]
    history_db,  \* email -> sequence of [risk_percentage, date]
    now,         \* time.time()
    ticks,       \* how many times the clock has advanced
    sends,       \* how many send_otp requests have been handled
    issued,      \* email -> the latest send_otp for it, while its code is outstanding
    consumed,    \* email -> how the latest code issued for it ended
    verified,    \* email -> the latest successful verify_otp for it
    raised,      \* the last step, if its response is kept (see Raised, Answered)
    appended,    \* email -> the records of the save_history requests that appended
    audit,       \* whether the responses of the read-only handlers are kept
    model,       \* the unpickled pcos_model.pkl, or None
    scaler,      \* the unpickled scaler.pkl, or None
    threads      \* request in flight -> its position in save_history and its locals

vars == <<otp_store, users_db, history_db, now, ticks, sends,
          issued, consumed, verified, raised, appended, audit, model, scaler, threads>>

stores == <<otp_store, users_db, history_db>>

\* What is fixed when the process starts.
config == <<audit, model, scaler>>

(* --------------------------- dict operations -------------------------- *)

\* d[k] = v
Put(d, k, v) == [x \in DOMAIN d \cup {k} |-> IF x = k THEN v ELSE d[x]]

\* del d[k]
Del(d, k) == [x \in DOMAIN d \ {k} |-> d[x]]

EmptyDict == [x \in {} |-> 0]

\* seq[::-1]
Reversed(s) == [i \in 1..Len(s) |-> s[Len(s) + 1 - i]]

\* min(n + 1, 2): the counters of the bookkeeping tell 0, 1 and "more".
Bump(n) == IF n >= 2 THEN 2 ELSE n + 1

(* ----------------------------- responses ------------------------------ *)

HTTPException(status_code, detail) ==
    [status |-> status_code, body |-> [detail |-> detail]]

NotFound == HTTPException(400, "OTP not found or expired")
Expired == HTTPException(400, "OTP expired")
Mismatch == HTTPException(400, "Invalid OTP")
AccountNotFound == HTTPException(400, "Account not found. Please sign up.")
IncorrectCredential == HTTPException(400, "Incorrect email or password.")
NotificationFailed == HTTPException(500, "smtp error")

Ok(body) == [status |-> 200, body |-> body]

\* f"mock-jwt-token-{email}" and f"mock-jwt-google-{email}"
SessionToken(email) == <<"mock-jwt-token-", email>>
GoogleToken(email) == <<"mock-jwt-google-", email>>

Session(token, email, name) ==
    Ok([status |-> "success", token |-> token,
        user |-> [email |-> email, name |-> name]])

\* The two errors that leave no trace in the three stores are kept until the
\* next step: a verify_otp answered Mismatch, a send_otp that raised
\* NotificationFailed. Every other step leaves Nothing, unless it is
\* Answered under audit.
Nothing == [email |-> "", response |-> Ok([status |-> "success"])]

Raised(email, response) ==
    IF response \in {Mismatch, NotificationFailed}
    THEN [email |-> email, response |-> response]
    ELSE Nothing

\* The handlers that write nothing (google_login, get_history, predict) leave
\* no trace either: under audit their response is kept until the next step.
Answered(email, response) ==
    IF audit THEN [email |-> email, response |-> response] ELSE Nothing

\* model = None, scaler = None
None == "None"

(* ------------------------------- Init --------------------------------- *)

Init ==
    /\ otp_store = EmptyDict
    /\ users_db = EmptyDict
    /\ history_db = EmptyDict
    /\ now = 0
    /\ ticks = 0
    /\ sends = 0
    /\ issued = EmptyDict
    /\ consumed = EmptyDict
    /\ verified = EmptyDict
    /\ raised = Nothing
    /\ appended = EmptyDict
    /\ audit = FALSE
    /\ model = None
    /\ scaler = None
    /\ threads = EmptyDict

(* ------------------------------ the clock ----------------------------- *)

Tick(d) ==
    /\ ticks < MaxTicks
    /\ now' = now + d
    /\ ticks' = ticks + 1
    /\ raised' = Nothing
    /\ UNCHANGED <<otp_store, users_db, history_db, sends, issued, consumed, verified>>
    /\ UNCHANGED <<appended, config, threads>>

(* ----------------------- POST /auth/send-otp -------------------------- *)

\* The record send_otp stores for a request handled at time t.
NewOtpRecord(n, name, t) ==
    [otp |-> str(n), expires_at |-> t + OTP_EXPIRY_SECONDS, name |-> name]

\* send_otp with otp_store.setdefault(email, ...): a pending record is kept.
send_otp_store_setdefault(email, n, name, delivery) ==
    IF email \in DOMAIN otp_store
    THEN otp_store
    ELSE Put(otp_store, email, NewOtpRecord(n, name, now))

\* send_otp that takes the record back when the delivery raises.
send_otp_store_rollback(email, n, name, delivery) ==
    IF delivery = "failed"
    THEN Del(otp_store, email)
    ELSE Put(otp_store, email, NewOtpRecord(n, name, now))

\* otp_store after send_otp: written before the delivery is attempted, and
\* not touched by the except branch.
send_otp_store(email, n, name, delivery) ==
    Put(otp_store, email, NewOtpRecord(n, name, now))

\* What send_otp returns or raises.
send_otp_response(delivery) ==
    IF delivery = "failed"
    THEN NotificationFailed
    ELSE Ok([status |-> "success", message |-> "OTP sent successfully"])

\* Bookkeeping of a send_otp: the code drawn, when, and for which name.
Issue(email, n, name) ==
    Put(issued, email, [otp |-> str(n), t0 |-> now, name |-> name])

send_otp(email, name, n, delivery) ==
    /\ sends < MaxSends
    /\ sends' = sends + 1
    /\ UNCHANGED <<users_db, history_db, now, ticks, verified, appended, config, threads>>
    /\ otp_store' = send_otp_store(email, n, name, delivery)
    /\ issued' = Issue(email, n, name)
    /\ consumed' = Del(consumed, email)
    /\ raised' = Raised(email, send_otp_response(delivery))

(* ---------------------- POST /auth/verify-otp ------------------------- *)

\* verify_otp without the expiry test.
verify_outcome_in_no_expiry(store, t, email, otp) ==
    IF email \notin DOMAIN store THEN "NotFound"
    ELSE IF store[email].otp # otp THEN "Mismatch"
    ELSE "Success"

\* verify_otp that compares the code before it tests the expiry.
verify_outcome_in_mismatch_first(store, t, email, otp) ==
    IF email \notin DOMAIN store THEN "NotFound"
    ELSE IF store[email].otp # otp THEN "Mismatch"
    ELSE IF t > store[email].expires_at THEN "Expired"
    ELSE "Success"

\* Which branch of verify_otp a request takes, given the store and the time.
verify_outcome_in(store, t, email, otp) ==
    IF email \notin DOMAIN store THEN "NotFound"
    ELSE IF t > store[email].expires_at THEN "Expired"
    ELSE IF store[email].otp # otp THEN "Mismatch"
    ELSE "Success"

verify_outcome(email, otp) == verify_outcome_in(otp_store, now, email, otp)

\* verify_otp that leaves the record in place after a success.
verify_otp_store_keep_on_success(email, outcome) ==
    IF outcome = "Expired" THEN Del(otp_store, email) ELSE otp_store

\* verify_otp that leaves the record in place after an expiry.
verify_otp_store_keep_on_expiry(email, outcome) ==
    IF outcome = "Success" THEN Del(otp_store, email) ELSE otp_store

\* verify_otp that reads the record with otp_store.pop(email, None).
verify_otp_store_pop(email, outcome) == Del(otp_store, email)

\* verify_otp that also deletes the record when the code is wrong.
verify_otp_store_del_on_mismatch(email, outcome) ==
    IF outcome \in {"Expired", "Success", "Mismatch"}
    THEN Del(otp_store, email)
    ELSE otp_store

\* otp_store after verify_otp.
verify_otp_store(email, outcome) ==
    IF outcome \in {"Expired", "Success"} THEN Del(otp_store, email) ELSE otp_store

\* verify_otp with users_db.setdefault(email, ...): an existing Account is kept.
verify_otp_users_setdefault(email, password, outcome) ==
    IF outcome = "Success" /\ email \notin DOMAIN users_db
    THEN Put(users_db, email,
             [name |-> otp_store[email].name, email |-> email, password |-> password])
    ELSE users_db

\* users_db after verify_otp.
verify_otp_users(email, password, outcome) ==
    IF outcome = "Success"
    THEN Put(users_db, email,
             [name |-> otp_store[email].name, email |-> email, password |-> password])
    ELSE users_db

\* What verify_otp returns or raises.
verify_otp_response(email, otp) ==
    LET outcome == verify_outcome(email, otp) IN
    CASE outcome = "NotFound" -> NotFound
      [] outcome = "Expired" -> Expired
      [] outcome = "Mismatch" -> Mismatch
      [] outcome = "Success" ->
            Session(SessionToken(email), email, otp_store[email].name)

\* Bookkeeping of a verify_otp: an outstanding code stays outstanding through
\* a Mismatch and a NotFound, and ends with a success or an Expired.
Noted(email, response) ==
    IF response.status = 200 \/ response = Expired THEN Del(issued, email) ELSE issued

\* How the latest code of `email` ended: "verified", "expired", and "twice"
\* if a code that had already ended is accepted again.
Ended(email, response) ==
    IF response.status = 200
    THEN Put(consumed, email, IF email \in DOMAIN issued THEN "verified" ELSE "twice")
    ELSE IF response = Expired /\ email \in DOMAIN issued
    THEN Put(consumed, email, "expired")
    ELSE consumed

\* Bookkeeping of a successful verify_otp: the display name of the send_otp
\* whose code was consumed, the password of this request, and how many
\* verifications of `email` have succeeded.
Verify(email, password, response) ==
    IF response.status # 200 THEN verified
    ELSE Put(verified, email,
             [name |-> IF email \in DOMAIN issued THEN issued[email].name ELSE "",
              password |-> password,
              n |-> IF email \in DOMAIN verified THEN Bump(verified[email].n) ELSE 1])

verify_otp(email, otp, password) ==
    LET outcome == verify_outcome(email, otp)
        response == verify_otp_response(email, otp)
    IN /\ UNCHANGED <<history_db, now, ticks, sends, appended, config, threads>>
       /\ otp_store' = verify_otp_store(email, outcome)
       /\ users_db' = verify_otp_users(email, password, outcome)
       /\ issued' = Noted(email, response)
       /\ consumed' = Ended(email, response)
       /\ verified' = Verify(email, password, response)
       /\ raised' = Raised(email, response)

(* ------------------------- POST /auth/login --------------------------- *)

\* login_user without the password comparison.
login_user_response_no_check(email, password) ==
    IF email \notin DOMAIN users_db THEN AccountNotFound
    ELSE Session(SessionToken(email), users_db[email].email, users_db[email].name)

\* What login_user returns or raises.
login_user_response(email, password) ==
    IF email \notin DOMAIN users_db THEN AccountNotFound
    ELSE IF users_db[email].password # password THEN IncorrectCredential
    ELSE Session(SessionToken(email), users_db[email].email, users_db[email].name)

\* login_user that clears the pending OTP of the email it is asked about.
login_user_stores_clear_otp(email, password) ==
    <<Del(otp_store, email), users_db, history_db>>

\* The stores after login_user: it reads users_db and writes nothing.
login_user_stores(email, password) == stores

login_user(email, password) ==
    /\ UNCHANGED <<now, ticks, sends, issued, consumed, verified>>
    /\ UNCHANGED <<appended, config, threads>>
    /\ raised' = Raised(email, login_user_response(email, password))
    /\ otp_store' = login_user_stores(email, password)[1]
    /\ users_db' = login_user_stores(email, password)[2]
    /\ history_db' = login_user_stores(email, password)[3]

(* ------------------------- POST /auth/google -------------------------- *)

google_login_response(token, email, name) == Session(GoogleToken(email), email, name)

\* google_login that registers the caller when no Account exists.
google_login_users_register(token, email, name) ==
    IF email \in DOMAIN users_db
    THEN users_db
    ELSE Put(users_db, email, [name |-> name, email |-> email, password |-> token])

\* google_login that refreshes the display name of an existing Account.
google_login_users_refresh(token, email, name) ==
    IF email \in DOMAIN users_db
    THEN [users_db EXCEPT ![email].name = name]
    ELSE users_db

\* google_login that stores the caller as an Account, new or not.
google_login_users_upsert(token, email, name) ==
    Put(users_db, email, [name |-> name, email |-> email, password |-> token])

\* users_db after google_login: the handler never touches it.
google_login_users(token, email, name) == users_db

google_login(token, email, name) ==
    /\ users_db' = google_login_users(token, email, name)
    /\ raised' = Answered(email, google_login_response(token, email, name))
    /\ UNCHANGED <<otp_store, history_db, now, ticks, sends, issued, consumed, verified>>
    /\ UNCHANGED <<appended, config, threads>>

(* --------------------------- POST /history ---------------------------- *)

\* How many records the ledger holds.
HistoryCount ==
    LET RECURSIVE Sum(_)
        Sum(S) == IF S = {} THEN 0
                  ELSE LET e == CHOOSE x \in S : TRUE
                       IN Len(history_db[e]) + Sum(S \ {e})
    IN Sum(DOMAIN history_db)

\* save_history that assigns a new list on every request.
save_history_db_recreate(email, item) ==
    Put(history_db, email, <<item>>)

\* history_db after save_history.
save_history_db(email, item) ==
    LET created == IF email \notin DOMAIN history_db
                   THEN Put(history_db, email, <<>>)
                   ELSE history_db
    IN [created EXCEPT ![email] = Append(@, item)]

save_history_response(email, item) ==
    Ok([status |-> "success", message |-> "History saved"])

\* Bookkeeping of a save_history: the record of the request, in the order
\* the requests appended.
Record(email, item) ==
    Put(appended, email,
        Append(IF email \in DOMAIN appended THEN appended[email] ELSE <<>>,
               [risk_percentage |-> item.risk_percentage, date |-> item.date]))

save_history(email, item) ==
    /\ HistoryCount < MaxHistory
    /\ history_db' = save_history_db(email, item)
    /\ appended' = Record(email, item)
    /\ raised' = Raised(email, save_history_response(email, item))
    /\ UNCHANGED <<otp_store, users_db, now, ticks, sends, issued, consumed, verified>>
    /\ UNCHANGED <<config, threads>>

(* ------------- POST /history, statement by statement ------------------ *)

\* save_history handled by several threads at once: each request runs the
\* statements of the handler in order, and the statements of different
\* requests interleave. A request holds its payload, the result of its
\* membership test, and, between the subscript and the call of append, a
\* reference to a list: the one the ledger stores, or one that a later
\* assignment has replaced in the ledger ("orphan").
Requests == 1..MaxThreads

\* The request arrives.
accept(w, email, item) ==
    /\ w \notin DOMAIN threads
    /\ threads' = Put(threads, w, [pc |-> "check", email |-> email, item |-> item,
                                   absent |-> FALSE, list |-> "none"])
    /\ UNCHANGED <<stores, now, ticks, sends, issued, consumed, verified, raised,
                   appended, config>>

\* A handler that assigns the empty list whatever its test found.
save_history_branch_always_create(absent) == "create"

\* if req.email not in history_db: the statement that follows the test.
save_history_branch(absent) == IF absent THEN "create" ELSE "load"

\* req.email not in history_db
save_history_check(w) ==
    /\ w \in DOMAIN threads /\ threads[w].pc = "check"
    /\ LET absent == threads[w].email \notin DOMAIN history_db
       IN threads' = [threads EXCEPT ![w].absent = absent,
                                     ![w].pc = save_history_branch(absent)]
    /\ UNCHANGED <<stores, now, ticks, sends, issued, consumed, verified, raised,
                   appended, config>>

\* history_db[req.email] = []: the list the ledger stored, if any, is no
\* longer the stored one for the requests that hold it.
save_history_create(w) ==
    /\ w \in DOMAIN threads /\ threads[w].pc = "create"
    /\ history_db' = Put(history_db, threads[w].email, <<>>)
    /\ threads' = [v \in DOMAIN threads |->
                      IF v = w THEN [threads[v] EXCEPT !.pc = "load"]
                      ELSE IF threads[v].email = threads[w].email /\ threads[v].list = "stored"
                      THEN [threads[v] EXCEPT !.list = "orphan"]
                      ELSE threads[v]]
    /\ UNCHANGED <<otp_store, users_db, now, ticks, sends, issued, consumed, verified,
                   raised, appended, config>>

\* history_db[req.email], the receiver of append
save_history_load(w) ==
    /\ w \in DOMAIN threads /\ threads[w].pc = "load"
    /\ threads[w].email \in DOMAIN history_db
    /\ threads' = [threads EXCEPT ![w].list = "stored", ![w].pc = "append"]
    /\ UNCHANGED <<stores, now, ticks, sends, issued, consumed, verified, raised,
                   appended, config>>

\* .append({...}) on the list the request holds
save_history_append(w) ==
    /\ w \in DOMAIN threads /\ threads[w].pc = "append"
    /\ history_db' = IF threads[w].list = "stored"
                     THEN [history_db EXCEPT ![threads[w].email] = Append(@, threads[w].item)]
                     ELSE history_db
    /\ appended' = Record(threads[w].email, threads[w].item)
    /\ threads' = [threads EXCEPT ![w].list = "none", ![w].pc = "return"]
    /\ UNCHANGED <<otp_store, users_db, now, ticks, sends, issued, consumed, verified,
                   raised, config>>

\* return {"status": "success", "message": "History saved"}
save_history_return(w) ==
    /\ w \in DOMAIN threads /\ threads[w].pc = "return"
    /\ threads' = [threads EXCEPT ![w].pc = "done"]
    /\ raised' = Raised(threads[w].email,
                        save_history_response(threads[w].email, threads[w].item))
    /\ UNCHANGED <<stores, now, ticks, sends, issued, consumed, verified,
                   appended, config>>

NextParallel ==
    \/ \E w \in Requests, e \in Emails, it \in HistoryItems : accept(w, e, it)
    \/ \E w \in Requests : save_history_check(w)
    \/ \E w \in Requests : save_history_create(w)
    \/ \E w \in Requests : save_history_load(w)
    \/ \E w \in Requests : save_history_append(w)
    \/ \E w \in Requests : save_history_return(w)

SpecParallel == Init /\ [][NextParallel]_vars

(* ------------------------ GET /history/{email} ------------------------ *)

\* get_history that returns the list as stored, oldest first.
get_history_response_oldest_first(email) ==
    Ok([status |-> "success",
        history |-> IF email \in DOMAIN history_db THEN history_db[email] ELSE <<>>])

get_history_response(email) ==
    LET history == IF email \in DOMAIN history_db THEN history_db[email] ELSE <<>>
    IN Ok([status |-> "success", history |-> Reversed(history)])

\* get_history with history_db.setdefault(email, []): an unknown email gets an
\* empty list in the ledger.
get_history_db_setdefault(email) ==
    IF email \in DOMAIN history_db THEN history_db ELSE Put(history_db, email, <<>>)

\* history_db after get_history: .get(email, []) inserts nothing.
get_history_db(email) == history_db

get_history(email) ==
    /\ history_db' = get_history_db(email)
    /\ raised' = Answered(email, get_history_response(email))
    /\ UNCHANGED <<otp_store, users_db, now, ticks, sends, issued, consumed, verified>>
    /\ UNCHANGED <<appended, config, threads>>

(* ------------------------------- Next --------------------------------- *)

Next ==
    \/ \E d \in TickSteps : Tick(d)
    \/ \E e \in Emails, nm \in Names, n \in OtpDraws, dl \in Deliveries :
          send_otp(e, nm, n, dl)
    \/ \E e \in Emails, o \in SubmittedOtps, p \in Passwords : verify_otp(e, o, p)
    \/ \E e \in Emails, p \in Passwords : login_user(e, p)
    \/ \E t \in Tokens, e \in Emails, nm \in Names : google_login(t, e, nm)
    \/ \E e \in SomeEmails, it \in SomeItems : save_history(e, it)
    \/ \E e \in Emails : get_history(e)

Spec == Init /\ [][Next]_vars

(* ------------- the ledger and the read-only handlers, audited ---------- *)

\* The same program with the responses of the read-only handlers kept.
InitAudit ==
    /\ otp_store = EmptyDict
    /\ users_db = EmptyDict
    /\ history_db = EmptyDict
    /\ now = 0
    /\ ticks = 0
    /\ sends = 0
    /\ issued = EmptyDict
    /\ consumed = EmptyDict
    /\ verified = EmptyDict
    /\ raised = Nothing
    /\ appended = EmptyDict
    /\ audit = TRUE
    /\ model = None
    /\ scaler = None
    /\ threads = EmptyDict

\* Every handler, the ledger with every email and payload, the sign-up of
\* one email only: the other email is never verified.
NextAudit ==
    \/ \E d \in TickSteps : Tick(d)
    \/ \E e \in SomeEmails, nm \in SomeNames, n \in SomeDraws, dl \in Deliveries :
          send_otp(e, nm, n, dl)
    \/ \E e \in SomeEmails, o \in SomeOtps, p \in SomePasswords : verify_otp(e, o, p)
    \/ \E e \in Emails, p \in Passwords : login_user(e, p)
    \/ \E t \in Tokens, e \in Emails, nm \in Names : google_login(t, e, nm)
    \/ \E e \in Emails, it \in HistoryItems : save_history(e, it)
    \/ \E e \in Emails : get_history(e)

SpecAudit == InitAudit /\ [][NextAudit]_vars

(* ---------------------------- POST /predict --------------------------- *)

\* Floats are fixed-point numbers: Unit stands for 1.0, so a percentage of
\* 73.125 is 73125000 and a probability of 0.5 is 500000.
Unit == 1000000

\* np.random.uniform(5.0, 85.0) draws from [5.0, 85.0).
FALLBACK_LOW == 5 * Unit
FALLBACK_HIGH == 85 * Unit

\* The values drawn: the lowest, every second percent above it, and the
\* highest below 85.0.
FallbackDraws == {FALLBACK_LOW + k * (2 * Unit) : k \in 0..39} \cup {FALLBACK_HIGH - 1}

\* What pickle.load may have returned for pcos_model.pkl and scaler.pkl:
\* the artefacts are not part of the repository, so two classifiers and one
\* scaler stand for them, fitted on N_FEATURES features.
Classifiers == {"classifier A", "classifier B"}
Scalers == {"scaler"}
N_FEATURES == 2

\* request.features: two vectors of the fitted length, one too short.
Features == {<<0, 0>>, <<3, 1>>, <<2>>}

\* scaler.transform(features): centres every feature.
transform(sc, features) == [i \in 1..Len(features) |-> features[i] - 1]

\* model.predict_proba(scaled_features)[0][1], a probability in [0, 1].
predict_proba(m, scaled) ==
    IF m = "classifier A"
    THEN (IF scaled[1] > 0 THEN 731250 ELSE 31234)
    ELSE (IF scaled[1] > 0 THEN 999960 ELSE 500000)

\* round(x, 2): to the nearest hundredth, a tie to the even one.
round2(x) ==
    LET step == Unit \div 100
        q == x \div step
        r == x % step
    IN IF 2 * r > step \/ (2 * r = step /\ q % 2 = 1) THEN (q + 1) * step ELSE q * step

\* An exception that leaves the handler: the framework answers 500.
InternalServerError == HTTPException(500, "Internal Server Error")

\* predict with "if model is None and scaler is None": with one of the two
\* missing it goes on and calls a method of None.
predict_response_and(features, u) ==
    IF model = None /\ scaler = None
    THEN Ok([risk_percentage |-> u])
    ELSE IF model = None \/ scaler = None \/ Len(features) # N_FEATURES
    THEN InternalServerError
    ELSE Ok([risk_percentage |->
                round2(predict_proba(model, transform(scaler, features)) * 100)])

\* What predict returns or raises, `u` being the value np.random.uniform
\* draws: the scaler and the classifier raise on a vector of another length.
predict_response(features, u) ==
    IF model = None \/ scaler = None
    THEN Ok([risk_percentage |-> u])
    ELSE IF Len(features) # N_FEATURES
    THEN InternalServerError
    ELSE Ok([risk_percentage |->
                round2(predict_proba(model, transform(scaler, features)) * 100)])

predict(features, u) ==
    /\ raised' = Answered("", predict_response(features, u))
    /\ UNCHANGED <<stores, now, ticks, sends, issued, consumed, verified, appended,
                   config, threads>>

\* The process starts with each artefact found or not.
InitPredict ==
    /\ otp_store = EmptyDict
    /\ users_db = EmptyDict
    /\ history_db = EmptyDict
    /\ now = 0
    /\ ticks = 0
    /\ sends = 0
    /\ issued = EmptyDict
    /\ consumed = EmptyDict
    /\ verified = EmptyDict
    /\ raised = Nothing
    /\ appended = EmptyDict
    /\ audit = TRUE
    /\ model \in {None} \cup Classifiers
    /\ scaler \in {None} \cup Scalers
    /\ threads = EmptyDict

NextPredict == \E f \in Features, u \in FallbackDraws : predict(f, u)

SpecPredict == InitPredict /\ [][NextPredict]_vars

(* ============================== claims ================================ *)

\* The record send_otp stored for the outstanding code of `e`.
AsIssued(e) ==
    [otp |-> issued[e].otp, expires_at |-> issued[e].t0 + OTP_EXPIRY_SECONDS,
     name |-> issued[e].name]

\* Whether the outstanding code of `e` is still within its lifetime.
InTime(e) == now <= issued[e].t0 + OTP_EXPIRY_SECONDS

\* C1: while the code C of the latest send_otp for an email is outstanding
\* (no verify_otp has succeeded or expired since) and now <= t0 + 300, a
\* verify_otp with C succeeds; once a verify_otp has succeeded, every further
\* verify_otp for that email (with C in particular) is answered NotFound
\* until the next send_otp, so no issued code is accepted twice.
C1_OneSuccessPerCode ==
    \A e \in Emails :
        /\ e \in DOMAIN issued /\ InTime(e) =>
              verify_otp_response(e, issued[e].otp)
                  = Session(SessionToken(e), e, issued[e].name)
        /\ e \in DOMAIN consumed =>
              /\ consumed[e] # "twice"
              /\ \A o \in SubmittedOtps : verify_otp_response(e, o) = NotFound

\* A code has been issued and consumed by a successful verify_otp.
C1_Witness ==
    \E e \in Emails : e \in DOMAIN consumed /\ consumed[e] = "verified"

\* C2 as stated: a send_otp for an email with a pending record stores the
\* new code with expiry now + 300, and a verify_otp with the old code no
\* longer succeeds, whatever code was drawn.
C2_OldCodeInvalid ==
    [][\A e \in DOMAIN otp_store : \A nm \in Names, n \in OtpDraws, dl \in Deliveries :
          send_otp(e, nm, n, dl) =>
              /\ otp_store'[e] = NewOtpRecord(n, nm, now)
              /\ verify_outcome_in(otp_store', now', e, otp_store[e].otp) # "Success"]_vars

\* C2 amended: after a send_otp the pending record of the email is the newly
\* generated code with expiry now + 300 and the new name, whatever was
\* pending before, and the only code a verify_otp accepts is that new code:
\* the old code no longer succeeds unless the generator drew it again.
C2_OnlyLatestCodeValid ==
    /\ \A e \in DOMAIN issued :
          e \in DOMAIN otp_store /\ otp_store[e] = AsIssued(e)
    /\ \A e \in Emails, o \in SubmittedOtps :
          verify_outcome(e, o) = "Success" => e \in DOMAIN issued /\ o = issued[e].otp

\* Two send_otp for the same email, the second while the first code was
\* pending (nothing was verified, and nothing can have expired yet).
C2_Witness ==
    \E e \in Emails :
        /\ sends = 2 /\ DOMAIN issued = {e}
        /\ DOMAIN consumed = {} /\ DOMAIN verified = {}
        /\ now <= OTP_EXPIRY_SECONDS

\* C3: on a pending, unexpired OTP a verify_otp with any other code is
\* answered Mismatch; after such answers the pending record is still the one
\* send_otp stored, and up to expires_at the correct code still succeeds.
C3_MismatchKeepsRecord ==
    /\ \A e \in Emails : raised = Raised(e, Mismatch) => e \in DOMAIN issued
    /\ \A e \in DOMAIN issued :
         /\ InTime(e) =>
               \A o \in SubmittedOtps \ {issued[e].otp} :
                   verify_otp_response(e, o) = Mismatch
         /\ raised = Raised(e, Mismatch) =>
               /\ e \in DOMAIN otp_store
               /\ otp_store[e] = AsIssued(e)
         /\ InTime(e) =>
               verify_otp_response(e, issued[e].otp)
                   = Session(SessionToken(e), e, issued[e].name)

\* A Mismatch has been answered on an outstanding code, and the clock stands
\* exactly at its expires_at.
C3_Witness ==
    \E e \in DOMAIN issued :
        raised = Raised(e, Mismatch) /\ now = issued[e].t0 + OTP_EXPIRY_SECONDS

\* C4: a verify_otp on a pending OTP at now > expires_at is answered Expired,
\* whatever the code; after it the record is gone, the next verify_otp is
\* answered NotFound, and neither of the two creates an Account.
C4_ExpiredDeletes ==
    \A e \in Emails :
        /\ e \in DOMAIN issued /\ ~InTime(e) =>
              \A o \in SubmittedOtps, p \in Passwords :
                  /\ verify_otp_response(e, o) = Expired
                  /\ verify_otp_users(e, p, verify_outcome(e, o)) = users_db
        /\ e \in DOMAIN consumed /\ consumed[e] = "expired" =>
              /\ e \notin DOMAIN otp_store
              /\ e \notin DOMAIN verified => e \notin DOMAIN users_db
              /\ \A o \in SubmittedOtps, p \in Passwords :
                    /\ verify_otp_response(e, o) = NotFound
                    /\ verify_otp_users(e, p, verify_outcome(e, o)) = users_db

\* An OTP has ended with Expired, for an email that has no Account.
C4_Witness ==
    \E e \in Emails :
        e \in DOMAIN consumed /\ consumed[e] = "expired" /\ e \notin DOMAIN users_db

\* C5: every email of users_db has had a successful verify_otp, and its
\* Account is stored under its own email: no other handler creates one.
C5_AccountsOnlyByVerify ==
    \A e \in DOMAIN users_db :
        e \in DOMAIN verified /\ users_db[e].email = e

\* One email has an Account; the other has seen an OTP end and has none.
C5_Witness ==
    \E e, f \in Emails :
        /\ e \in DOMAIN users_db
        /\ f \notin DOMAIN users_db /\ f \in DOMAIN consumed

\* C6 as stated: once an Account exists it keeps its display_name and
\* credential through every step.
C6_AccountNeverChanges ==
    [][\A e \in DOMAIN users_db :
          e \in DOMAIN users_db' /\ users_db'[e] = users_db[e]]_vars

\* C6 amended: once an Account exists it is never deleted, and the only
\* steps that change it are successful verify_otp for its email, which
\* replace it by the name of the consumed OTP and the submitted password.
C6_AccountOnlyReplacedByVerify ==
    [][\A e \in DOMAIN users_db :
          /\ e \in DOMAIN users_db'
          /\ users_db'[e] # users_db[e] =>
                \E o \in SubmittedOtps, p \in Passwords :
                    /\ verify_otp(e, o, p)
                    /\ verify_outcome(e, o) = "Success"
                    /\ users_db'[e] = [name |-> issued[e].name, email |-> e,
                                       password |-> p]]_vars

\* An email has been verified twice: its Account is still there.
C6_Witness ==
    \E e \in DOMAIN verified :
        /\ verified[e].n = 2
        /\ e \in DOMAIN users_db

\* C7: after every successful verify_otp the Account of the email is
\* {email, name given to the send_otp whose code was consumed, password of
\* that verify request}, the first time and every later time.
C7_VerifyUpserts ==
    \A e \in DOMAIN verified :
        /\ e \in DOMAIN users_db
        /\ users_db[e] = [name |-> verified[e].name, email |-> e,
                          password |-> verified[e].password]

\* A second successful verify_otp for an email has just upserted its Account.
C7_Witness ==
    \E e \in DOMAIN verified :
        /\ verified[e].n = 2
        /\ e \in DOMAIN consumed /\ consumed[e] = "verified"

\* C8: login_user answers AccountNotFound for an email never verified,
\* IncorrectCredential for a password other than the one of the latest
\* successful verify_otp (the stored one), and a Session for that email
\* otherwise.
C8_Login ==
    \A e \in Emails, p \in Passwords :
        LET r == login_user_response(e, p) IN
        /\ e \notin DOMAIN verified => r = AccountNotFound
        /\ e \in DOMAIN verified /\ p # verified[e].password => r = IncorrectCredential
        /\ e \in DOMAIN verified /\ p = verified[e].password =>
              r = Session(SessionToken(e), e, verified[e].name)

\* One email is verified and the other is not: the three answers all occur.
C8_Witness ==
    \E e, f \in Emails :
        /\ e \in DOMAIN verified
        /\ f \notin DOMAIN verified /\ f \in DOMAIN issued

\* C9: a send_otp whose delivery raised answers NotificationFailed and has
\* issued its code all the same: the record it stored is in otp_store, and
\* as for every outstanding code, up to its expiry a verify_otp with the
\* code succeeds and stores the Account.
C9_FailedDeliveryKeepsOtp ==
    /\ \A e \in Emails :
          raised = Raised(e, NotificationFailed) =>
              /\ e \in DOMAIN issued /\ issued[e].t0 = now
              /\ e \in DOMAIN otp_store /\ otp_store[e] = AsIssued(e)
    /\ \A e \in DOMAIN issued :
          InTime(e) =>
              /\ verify_otp_response(e, issued[e].otp)
                    = Session(SessionToken(e), e, issued[e].name)
              /\ \A p \in Passwords :
                    LET after == verify_otp_users(e, p, verify_outcome(e, issued[e].otp))
                    IN e \in DOMAIN after
                       /\ after[e] = [name |-> issued[e].name, email |-> e,
                                      password |-> p]

\* A send_otp has just raised NotificationFailed, for an email that already
\* has an Account under another name.
C9_Witness ==
    \E e \in DOMAIN users_db :
        /\ raised = Raised(e, NotificationFailed)
        /\ users_db[e].name # issued[e].name

\* What C10 says of verify_otp and login_user: a step that changes one of
\* the three stores is no login_user ending in AccountNotFound or
\* IncorrectCredential, and if it is a verify_otp that does not succeed, it
\* ends in Expired and only removes the pending record of the email.
ErrorPathsOfVerifyAndLogin ==
    \/ UNCHANGED stores
    \/ /\ \A e \in Emails, o \in SubmittedOtps, p \in Passwords :
             verify_outcome(e, o) # "Success" /\ verify_otp(e, o, p) =>
                 /\ verify_outcome(e, o) = "Expired"
                 /\ otp_store' = Del(otp_store, e)
                 /\ UNCHANGED <<users_db, history_db>>
       /\ \A e \in Emails, p \in Passwords :
             login_user_response(e, p).status # 200 => ~login_user(e, p)

\* C10 as stated: besides the deletion by Expired, no operation that ends in
\* an error changes a store; a send_otp ending in NotificationFailed too.
C10_ErrorsChangeNothing ==
    [][/\ ErrorPathsOfVerifyAndLogin
       /\ \/ UNCHANGED stores
          \/ \A e \in Emails, nm \in Names, n \in OtpDraws :
                ~send_otp(e, nm, n, "failed")]_vars

\* C10 amended: NotFound, Mismatch, AccountNotFound and IncorrectCredential
\* change none of the three stores, Expired only removes the pending record
\* of the email, and a send_otp ending in NotificationFailed changes only
\* otp_store, where it has stored the newly issued record of the email.
C10_ErrorsChangeNothingButIssue ==
    [][/\ ErrorPathsOfVerifyAndLogin
       /\ \/ UNCHANGED stores
          \/ \A e \in Emails, nm \in Names, n \in OtpDraws :
                send_otp(e, nm, n, "failed") =>
                    /\ otp_store' = Put(otp_store, e, NewOtpRecord(n, nm, now))
                    /\ UNCHANGED <<users_db, history_db>>]_vars

\* One OTP has ended with Expired, and the send_otp for the other email has
\* just raised.
C10_Witness ==
    \E e, f \in Emails :
        /\ e \in DOMAIN consumed /\ consumed[e] = "expired"
        /\ f # e /\ raised = Raised(f, NotificationFailed)

\* The records the save_history requests for `e` appended, oldest first.
AppendedFor(e) == IF e \in DOMAIN appended THEN appended[e] ELSE <<>>

\* The response of get_history for `e` with the list `h`.
Listing(e, h) == [email |-> e, response |-> Ok([status |-> "success", history |-> h])]

\* C11: after every sequence of save_history requests, for every email,
\* get_history answers 200 with exactly the records appended for that email,
\* the i-th of the answer being the i-th last appended, whatever was appended
\* for other emails in between.
C11_ListReversesAppends ==
    \A e \in Emails :
        LET own == AppendedFor(e)
            got == get_history_response(e)
        IN /\ got.status = 200 /\ got.body.status = "success"
           /\ Len(got.body.history) = Len(own)
           /\ \A i \in 1..Len(own) : got.body.history[i] = own[Len(own) + 1 - i]

\* get_history has just answered for an email with three records, the first
\* appended differing from the last, while the other email has a record too.
C11_Witness ==
    \E e, f \in Emails :
        /\ e # f /\ f \in DOMAIN appended
        /\ Len(AppendedFor(e)) = 3 /\ appended[e][1] # appended[e][3]
        /\ raised = Listing(e, <<appended[e][3], appended[e][2], appended[e][1]>>)

\* C12: for an email no save_history has appended for, get_history answers
\* 200 with status success and an empty history, and the ledger has no entry
\* for that email, before and after any number of get_history requests.
C12_UnknownEmailListsEmpty ==
    \A e \in Emails :
        e \notin DOMAIN appended =>
            /\ get_history_response(e) = Ok([status |-> "success", history |-> <<>>])
            /\ e \notin DOMAIN history_db

\* get_history has just answered an empty history for an email that has no
\* record, while the other email has some.
C12_Witness ==
    \E e \in Emails :
        /\ e \notin DOMAIN appended /\ DOMAIN appended # {}
        /\ raised = Listing(e, <<>>)

\* C13: whenever a verify_otp for an email succeeds, a send_otp for the email
\* is outstanding (no verify_otp for it has succeeded or ended in Expired
\* since the latest send_otp), the submitted code is the code that send_otp
\* generated, and now is at most its time + 300.
C13_SuccessOnlyLatestInTime ==
    \A e \in Emails, o \in SubmittedOtps :
        verify_otp_response(e, o).status = 200 =>
            /\ e \in DOMAIN issued /\ e \notin DOMAIN consumed
            /\ o = issued[e].otp
            /\ now <= issued[e].t0 + OTP_EXPIRY_SECONDS

\* Both send_otp were for the same email, and a verify_otp has succeeded
\* since the second: the only success that email has had.
C13_Witness ==
    \E e \in Emails :
        /\ sends = 2 /\ DOMAIN issued = {}
        /\ DOMAIN consumed = {e} /\ consumed[e] = "verified"
        /\ verified[e].n = 1

\* C14: verify_otp decides in the order NotFound (no code outstanding),
\* Expired with deletion (now > expires_at, whatever the code), Mismatch
\* (another code), success; so the right code at now = expires_at succeeds
\* and a wrong code after expiry is answered Expired.
C14_OutcomeOrder ==
    \A e \in Emails, o \in SubmittedOtps :
        LET r == verify_otp_response(e, o)
            after == verify_otp_store(e, verify_outcome(e, o))
        IN /\ e \notin DOMAIN issued => r = NotFound
           /\ e \in DOMAIN issued =>
                 LET expires_at == issued[e].t0 + OTP_EXPIRY_SECONDS IN
                 /\ now > expires_at => r = Expired /\ e \notin DOMAIN after
                 /\ now <= expires_at /\ o # issued[e].otp => r = Mismatch /\ after = otp_store
                 /\ now <= expires_at /\ o = issued[e].otp => r.status = 200

\* An Expired has been answered for one email, and the code of the other is
\* pending past its expiry.
C14_Witness ==
    \E e, f \in Emails :
        /\ e \in DOMAIN consumed /\ consumed[e] = "expired"
        /\ f \in DOMAIN issued /\ now > issued[f].t0 + OTP_EXPIRY_SECONDS

\* C15: the pending OTP of an email is created or replaced only by a send_otp
\* for that email and removed only by a verify_otp for that email that
\* succeeds or ends in Expired: no other step (the clock, login_user,
\* google_login, save_history, get_history, requests for another email)
\* changes it. otp_store holds at most one record per email by construction.
C15_PendingLifecycle ==
    [][\A e \in Emails :
          LET had == e \in DOMAIN otp_store
              has == e \in DOMAIN otp_store'
          IN /\ has /\ ~had =>
                   \E nm \in Names, n \in OtpDraws, dl \in Deliveries : send_otp(e, nm, n, dl)
             /\ has /\ had /\ otp_store'[e] # otp_store[e] =>
                   \E nm \in Names, n \in OtpDraws, dl \in Deliveries : send_otp(e, nm, n, dl)
             /\ had /\ ~has =>
                   \E o \in SubmittedOtps, p \in Passwords :
                       /\ verify_otp(e, o, p)
                       /\ verify_outcome(e, o) \in {"Success", "Expired"}]_vars

\* The pending OTP of one email is as issued after the clock has advanced
\* and a code of the other email has been consumed.
C15_Witness ==
    \E e, f \in Emails :
        /\ e # f /\ ticks = 1 /\ f \in DOMAIN consumed
        /\ e \in DOMAIN issued /\ issued[e].t0 = 0
        /\ e \in DOMAIN otp_store /\ otp_store[e] = AsIssued(e)

\* The list the ledger `db` holds for `e`.
Stored(db, e) == IF e \in DOMAIN db THEN db[e] ELSE <<>>

\* C16: in every step of every handler, for every email, the list stored
\* before the step is a prefix of the list stored after it and an entry of
\* the ledger stays one; a list that changed was extended by a save_history
\* for that very email, by exactly the record of that request.
C16_AppendOnly ==
    [][\A e \in Emails :
          LET before == Stored(history_db, e)
              after == Stored(history_db', e)
          IN /\ e \in DOMAIN history_db => e \in DOMAIN history_db'
             /\ Len(before) <= Len(after)
             /\ \A i \in 1..Len(before) : after[i] = before[i]
             /\ after # before =>
                   \E it \in HistoryItems :
                       /\ save_history(e, it)
                       /\ after = Append(before, [risk_percentage |-> it.risk_percentage,
                                                  date |-> it.date])]_vars

\* An email has three records, not all the same, in a ledger that holds a
\* list for the other email too, after a sign-up and an advance of the clock.
C16_Witness ==
    \E e, f \in Emails :
        /\ e # f /\ f \in DOMAIN history_db
        /\ Len(Stored(history_db, e)) = 3 /\ history_db[e][1] # history_db[e][2]
        /\ DOMAIN users_db # {} /\ ticks = 1

\* C17: google_login answers 200 for every token, email and name, with the
\* session of the supplied email and name, and changes none of the three
\* stores; an email that no verify_otp has verified has no Account after
\* it, and login_user for it is still answered AccountNotFound.
C17_FederatedLoginChangesNothing ==
    [][\A t \in Tokens, e \in Emails, nm \in Names :
          google_login(t, e, nm) =>
              /\ raised' = [email |-> e, response |-> Session(GoogleToken(e), e, nm)]
              /\ UNCHANGED stores
              /\ e \notin DOMAIN verified =>
                    /\ e \notin DOMAIN users_db'
                    /\ \A p \in Passwords : login_user_response(e, p)' = AccountNotFound]_vars

\* google_login has just answered for an email that has no Account, while
\* the other email has been verified and has one.
C17_Witness ==
    \E e \in Emails, nm \in Names :
        /\ raised = [email |-> e, response |-> Session(GoogleToken(e), e, nm)]
        /\ e \notin DOMAIN users_db /\ DOMAIN users_db # {}

\* The requests for `e` whose membership test found no list.
FoundAbsent(e) == {w \in DOMAIN threads : threads[w].email = e /\ threads[w].absent}

\* The requests for `e` that have returned: each with the success response.
Returned(e) == {w \in DOMAIN threads : threads[w].email = e /\ threads[w].pc = "done"}

\* C18: with the statements of parallel save_history requests interleaved,
\* every request returns success and the ledger may hold fewer records for
\* an email than were appended; what it holds are records of the requests,
\* at least one once all have returned, and a record is lost only when two
\* requests for the email both found no list, i.e. one ran its membership
\* test before the other had assigned the empty list.
C18_LostUpdateOnlyInRace ==
    \A e \in Emails :
        LET stored == Stored(history_db, e) IN
        /\ Len(stored) <= Len(AppendedFor(e))
        /\ \A i \in 1..Len(stored) : \E w \in DOMAIN threads :
              threads[w].email = e /\ threads[w].item = stored[i]
        /\ Returned(e) # {} /\ (\A w \in DOMAIN threads : threads[w].pc = "done") =>
              Len(stored) >= 1
        /\ Len(stored) < Len(AppendedFor(e)) => Cardinality(FoundAbsent(e)) >= 2

\* Two requests for the same email, with different records, have both
\* returned success, and the ledger holds one record for it.
C18_Witness ==
    \E e \in Emails : \E v, w \in Returned(e) :
        /\ threads[v].item # threads[w].item
        /\ Len(AppendedFor(e)) = 2
        /\ Len(Stored(history_db, e)) = 1

\* The percentage of the classifier `m` for `f` scaled by `sc`.
Percentage(m, sc, f) == round2(predict_proba(m, transform(sc, f)) * 100)

\* C19 as stated: without a classifier predict returns the value drawn from
\* [5.0, 85.0), and whenever a classifier is loaded it returns the
\* percentage of the classifier for the features (or the error the
\* collaborators raise on them), not the value drawn.
C19_ClassifierWheneverLoaded ==
    \A f \in Features, u \in FallbackDraws :
        LET r == predict_response(f, u) IN
        /\ model = None => r = Ok([risk_percentage |-> u])
        /\ model # None =>
              IF Len(f) = N_FEATURES
              THEN \E sc \in Scalers : r = Ok([risk_percentage |-> Percentage(model, sc, f)])
              ELSE r = InternalServerError

\* C19 amended: predict returns the value drawn from [5.0, 85.0) when the
\* classifier or the scaler is not loaded; when both are loaded it returns
\* the percentage of the classifier for the scaled features, a multiple of
\* 0.01 between 0 and 100 (or the error the collaborators raise on the
\* features), not the value drawn.
C19_FallbackUnlessBothLoaded ==
    \A f \in Features, u \in FallbackDraws :
        LET r == predict_response(f, u) IN
        /\ FALLBACK_LOW <= u /\ u < FALLBACK_HIGH
        /\ model = None \/ scaler = None => r = Ok([risk_percentage |-> u])
        /\ model # None /\ scaler # None =>
              IF Len(f) = N_FEATURES
              THEN /\ r = Ok([risk_percentage |-> Percentage(model, scaler, f)])
                   /\ r.body.risk_percentage % (Unit \div 100) = 0
                   /\ r.body.risk_percentage \in 0..(100 * Unit)
              ELSE r = InternalServerError

\* predict has just answered with the value drawn although a classifier is
\* loaded: the scaler is not.
C19_Witness ==
    \E u \in FallbackDraws :
        /\ model # None /\ scaler = None
        /\ raised = [email |-> "", response |-> Ok([risk_percentage |-> u])]

====
